---- MODULE Spec2Model ----
(***************************************************************************)
(* Model of replay/build_replay_site.py: the pipeline                      *)
(*   build_portfolio_points -> build_trade_events -> pair_trade_events     *)
(*   -> compute_stats -> render_html and write                             *)
(* run by main() on the two logs it loads.                                 *)
(*                                                                         *)
(* Values.                                                                 *)
(*  - A float (or None) is a rational [n, d] in lowest terms with d > 0;   *)
(*    None is the record with d = 0.  The inputs are integers, so every    *)
(*    quotient and product the code forms is an exact rational.            *)
(*  - An aware datetime is [local, off]: the wall-clock reading and the    *)
(*    UTC offset, both in seconds; its instant is local - off.  Python     *)
(*    compares aware datetimes by instant.                                 *)
(*  - datetime.isoformat() is "<local, fixed width><+HH:MM[:SS]>".  Such   *)
(*    a string is kept as the sequence <<local, off>> and strings are      *)
(*    compared as Python compares them, lexicographically (offsets here    *)
(*    are >= 0, so the sign character is always "+").                      *)
(***************************************************************************)
EXTENDS Integers, Sequences, FiniteSets, TLC

\* ------------------------------------------------------------------ bounds
MaxRows == 3        \* trade rows fed to the reconciler
MaxPoints == 3      \* portfolio rows fed to the timeline builder
MaxPipeRows == 2    \* rows of each dataset in a whole-pipeline run

\* ------------------------------------------------------------------ floats
None == [n |-> 0, d |-> 0]
IsNone(x) == x.d = 0
F(i) == [n |-> i, d |-> 1]
IsZero(x) == x.d # 0 /\ x.n = 0

Abs(i) == IF i < 0 THEN -i ELSE i

RECURSIVE Gcd(_, _)
Gcd(a, b) == IF b = 0 THEN a ELSE Gcd(b, a % b)

\* n/d in lowest terms, d > 0 (d # 0 is the caller's obligation)
Norm(n, d) ==
    LET g == Gcd(Abs(n), Abs(d))
        s == IF d < 0 THEN -1 ELSE 1
    IN  [n |-> (s * n) \div g, d |-> (s * d) \div g]

FDiv(a, b) == Norm(a.n * b.d, a.d * b.n)
FMul(a, b) == Norm(a.n * b.n, a.d * b.d)
FSub(a, b) == Norm(a.n * b.d - b.n * a.d, a.d * b.d)
\* a < b for two floats (neither is None)
FLess(a, b) == a.n * b.d < b.n * a.d

\* ------------------------------------------------------------------ strings
\* lexicographic order of two strings given as sequences of character codes
RECURSIVE StrLess(_, _)
StrLess(a, b) ==
    IF b = <<>> THEN FALSE
    ELSE IF a = <<>> THEN TRUE
    ELSE IF Head(a) # Head(b) THEN Head(a) < Head(b)
    ELSE StrLess(Tail(a), Tail(b))

\* str | None
NoneStr == [some |-> FALSE, s |-> <<>>]
SomeStr(s) == [some |-> TRUE, s |-> s]
\* Python's `a or b` for a : str | None, b : str
StrOr(a, b) == IF a.some /\ a.s # <<>> THEN a.s ELSE b

\* str.upper() on the vocabulary of the logs
Upper(s) ==
    CASE s = "entry" -> "ENTRY"
      [] s = "close" -> "CLOSE"
      [] s = "hold"  -> "HOLD"
      [] s = "long"  -> "LONG"
      [] s = "short" -> "SHORT"
      [] OTHER       -> s

\* ------------------------------------------------------------------ raw cells
\* A raw cell of a row: absent key / None, "", non-numeric text, a number
\* (native or numeric-looking text), or a native integer beyond the range of a
\* float (a JSON integer literal of more than 308 digits).
RawAbsent == [kind |-> "absent", v |-> 0]
RawEmpty == [kind |-> "empty", v |-> 0]
RawJunk == [kind |-> "junk", v |-> 0]
RawNum(i) == [kind |-> "num", v |-> i]
RawHuge == [kind |-> "huge", v |-> 0]

\* to_float raises: float(value) on a native int is outside the try block and
\* raises OverflowError when the int is too large
ToFloatRaises(value) == value.kind = "huge"

to_float(value) ==
    IF value.kind = "num" THEN F(value.v) ELSE None

\* A raw timestamp cell: absent, "", white space, unparsable text, or an ISO-8601 instant
\* with wall-clock reading `local` and either a trailing "Z" (z) or "+off".
TsAbsent == [kind |-> "absent", local |-> 0, off |-> 0, z |-> FALSE]
TsEmpty == [kind |-> "empty", local |-> 0, off |-> 0, z |-> FALSE]
TsBlank == [kind |-> "blank", local |-> 0, off |-> 0, z |-> FALSE]
TsBad == [kind |-> "bad", local |-> 0, off |-> 0, z |-> FALSE]
TsIso(l, o) == [kind |-> "iso", local |-> l, off |-> o, z |-> FALSE]
TsZulu(l) == [kind |-> "iso", local |-> l, off |-> 0, z |-> TRUE]

\* `if not raw_ts` that lets only None through (faulty variant: "" is parsed)
FalsyNoneOnly(raw_ts) == raw_ts.kind = "absent"
\* `if not raw_ts: continue`
Falsy(raw_ts) == raw_ts.kind \in {"absent", "empty"}
\* every timestamp taken as parsable (faulty variant: parse errors are swallowed)
Lenient(records) == FALSE
\* parse_timestamp raises ValueError: the text is empty after strip(), or
\* fromisoformat rejects it
Unparsable(raw_ts) == raw_ts.kind # "iso"
parse_timestamp(value) ==
    [local |-> value.local, off |-> IF value.z THEN 0 ELSE value.off]

Instant(dt) == dt.local - dt.off
isoformat(dt) == <<dt.local, dt.off>>

\* ------------------------------------------------------------------ sorting
\* list.sort(key=...), given less[i, j]: whether the key of seq[i] is smaller than
\* the key of seq[j].  The sort is stable: element i lands after every element
\* whose key is smaller and after every earlier element whose key is not greater.
StableSort(seq, less) ==
    LET n == Len(seq)
        rank(i) == 1 + Cardinality({j \in 1..n :
                        less[j, i] \/ (~less[i, j] /\ j < i)})
    IN  [k \in 1..n |-> seq[CHOOSE i \in 1..n : rank(i) = k]]

DtLess(a, b) == Instant(a.dt) < Instant(b.dt)

\* ------------------------------------------------------------------ timeline
MakePoint(row) ==
    LET dt == parse_timestamp(row.timestamp)
    IN  [timestamp |-> isoformat(dt),
         dt |-> dt,
         balance |-> to_float(row.total_balance),
         equity |-> to_float(row.total_equity),
         return_pct |-> to_float(row.total_return_pct),
         positions |-> to_float(row.num_positions),
         btc_price |-> to_float(row.btc_price),
         hodl_equity |-> None]

Usable(records) == SelectSeq(records, LAMBDA row : ~Falsy(row.timestamp))
Raises(records) == \E i \in 1..Len(Usable(records)) : Unparsable(Usable(records)[i].timestamp)
\* a to_float call of build_portfolio_points raises
PointCellsRaise(records) ==
    \E i \in 1..Len(Usable(records)) :
        LET row == Usable(records)[i]
        IN  \E cell \in {row.total_balance, row.total_equity, row.total_return_pct,
                          row.num_positions, row.btc_price} : ToFloatRaises(cell)
\* a to_float call of build_trade_events raises
EventCellsRaise(records) ==
    \E i \in 1..Len(Usable(records)) :
        LET row == Usable(records)[i]
        IN  \E cell \in {row.price, row.quantity, row.pnl, row.balance_after,
                          row.profit_target, row.stop_loss, row.leverage,
                          row.confidence} : ToFloatRaises(cell)

ParsePoints(records) ==
    LET rows == Usable(records) IN [i \in 1..Len(rows) |-> MakePoint(rows[i])]

\* (faulty variant) the points are left in input order
SortPointsNone(pts) == pts

SortPoints(pts) ==
    StableSort(pts, [i, j \in 1..Len(pts) |-> DtLess(pts[i], pts[j])])

PriceUsable(point) == ~IsNone(point.btc_price) /\ ~IsZero(point.btc_price)

\* (faulty variant) the unit count is dropped at a point without a usable price and
\* anchored again at the next usable one
StepUnitsReanchor(units, point) ==
    IF ~PriceUsable(point) THEN None
    ELSE IF IsNone(units) /\ ~IsNone(point.equity)
    THEN FDiv(point.equity, point.btc_price)
    ELSE units

\* one iteration of the benchmark loop: the unit count after it ...
StepUnits(units, point) ==
    IF IsNone(units) /\ ~IsNone(point.equity) /\ PriceUsable(point)
    THEN FDiv(point.equity, point.btc_price)
    ELSE units

\* (faulty variant) hodl_equity is written from the unit count held before the point
StepHodlStale(units, point) ==
    IF ~IsNone(units) /\ PriceUsable(point) THEN FMul(units, point.btc_price) ELSE None

\* ... and the point's hodl_equity
StepHodl(units, point) ==
    LET u == StepUnits(units, point)
    IN  IF ~IsNone(u) /\ PriceUsable(point) THEN FMul(u, point.btc_price) ELSE None

RECURSIVE HodlPass(_, _)
HodlPass(units, pts) ==
    IF pts = <<>> THEN <<>>
    ELSE <<[Head(pts) EXCEPT !.hodl_equity = StepHodl(units, Head(pts))]>>
         \o HodlPass(StepUnits(units, Head(pts)), Tail(pts))

\* the value build_portfolio_points returns (when it does not raise)
build_portfolio_points(records) == HodlPass(None, SortPoints(ParsePoints(records)))

\* ------------------------------------------------------------------ trade events
\* bisect.bisect_left (faulty variant: the search stops before the entries equal to x)
RECURSIVE BisectLeftSearch(_, _, _, _)
BisectLeftSearch(a, x, lo, hi) ==
    IF lo < hi
    THEN LET mid == (lo + hi) \div 2
         IN  IF Instant(x) <= Instant(a[mid + 1])
             THEN BisectLeftSearch(a, x, lo, mid)
             ELSE BisectLeftSearch(a, x, mid + 1, hi)
    ELSE lo

\* bisect.bisect_right(a, x) on the list a of datetimes: binary search on [lo, hi)
RECURSIVE BisectSearch(_, _, _, _)
BisectSearch(a, x, lo, hi) ==
    IF lo < hi
    THEN LET mid == (lo + hi) \div 2
         IN  IF Instant(x) < Instant(a[mid + 1])
             THEN BisectSearch(a, x, lo, mid)
             ELSE BisectSearch(a, x, mid + 1, hi)
    ELSE lo

bisect_right(a, x) == BisectSearch(a, x, 0, Len(a))

infer_plot_value(trade_dt, timeline, values) ==
    IF timeline = <<>> THEN None
    ELSE LET idx == bisect_right(timeline, trade_dt) - 1
         IN  IF idx < 0 THEN None ELSE values[idx + 1]

MakeEvent(row, portfolio_points) ==
    LET timeline == [i \in 1..Len(portfolio_points) |-> portfolio_points[i].dt]
        equity_values == [i \in 1..Len(portfolio_points) |->
                            IF ~IsNone(portfolio_points[i].equity)
                            THEN portfolio_points[i].equity
                            ELSE portfolio_points[i].balance]
        dt == parse_timestamp(row.timestamp)
        balance_after == to_float(row.balance_after)
    IN  [timestamp |-> isoformat(dt),
         dt |-> dt,
         action |-> Upper(row.action),
         side |-> Upper(row.side),
         coin |-> row.coin,
         price |-> to_float(row.price),
         quantity |-> to_float(row.quantity),
         pnl |-> to_float(row.pnl),
         balance_after |-> balance_after,
         profit_target |-> to_float(row.profit_target),
         stop_loss |-> to_float(row.stop_loss),
         leverage |-> to_float(row.leverage),
         confidence |-> to_float(row.confidence),
         reason |-> row.reason,
         plot_value |-> IF IsNone(balance_after)
                        THEN infer_plot_value(dt, timeline, equity_values)
                        ELSE balance_after]

ParseEvents(records, portfolio_points) ==
    LET rows == Usable(records)
    IN  [i \in 1..Len(rows) |-> MakeEvent(rows[i], portfolio_points)]

\* no sort at all (faulty variant: the events stay in the order of the log)
SortEventsNone(evs) == evs
\* (faulty variant) the events are sorted by their timestamp strings
SortEventsByString(evs) ==
    StableSort(evs, [i, j \in 1..Len(evs) |-> StrLess(evs[i].timestamp, evs[j].timestamp)])

SortEvents(evs) ==
    StableSort(evs, [i, j \in 1..Len(evs) |-> DtLess(evs[i], evs[j])])

\* the value build_trade_events returns (when it does not raise)
build_trade_events(records, portfolio_points) ==
    SortEvents(ParseEvents(records, portfolio_points))

\* ------------------------------------------------------------------ reconciler
\* open_positions is a dict: a sequence of [key, queue] in insertion order
\* a key without the side (faulty variant: both directions of a coin share a queue)
CoinKey(event) == <<event.coin, "">>
\* `key = (event.coin, event.side)`
EventKey(event) == <<event.coin, event.side>>

KeyIndex(open, key) ==
    IF \E i \in 1..Len(open) : open[i].key = key
    THEN CHOOSE i \in 1..Len(open) : open[i].key = key
    ELSE 0

\* open_positions.get(key); a missing key and an empty deque are both falsy
QueueOf(open, key) ==
    IF KeyIndex(open, key) = 0 THEN <<>> ELSE open[KeyIndex(open, key)].queue

\* open_positions.setdefault(key, deque()).append(event)
PushEntry(open, event) ==
    LET k == KeyIndex(open, EventKey(event))
    IN  IF k = 0
        THEN Append(open, [key |-> EventKey(event), queue |-> <<event>>])
        ELSE [open EXCEPT ![k].queue = Append(@, event)]

\* (faulty variant) deque.pop(): takes the newest item, not the oldest
PopRight(queue) ==
    [item |-> queue[Len(queue)], rest |-> SubSeq(queue, 1, Len(queue) - 1)]

\* deque.popleft(): the item returned and the deque left
PopLeft(queue) == [item |-> Head(queue), rest |-> Tail(queue)]

\* (faulty variant) the entry is read but left in its queue
AfterPeek(open, key) == open

\* the dict after `queue.popleft() if queue else None`
AfterPop(open, key) ==
    LET k == KeyIndex(open, key)
    IN  IF k = 0 \/ QueueOf(open, key) = <<>> THEN open
        ELSE [open EXCEPT ![k].queue = PopLeft(@).rest]

\* (faulty variant) an orphan CLOSE lends nothing: quantity is left absent
ClosedTradeNoBorrow(queue, event) ==
    LET matched == queue # <<>>
        entry_event == PopLeft(queue).item
    IN  [entry_timestamp |-> IF matched THEN entry_event.timestamp ELSE event.timestamp,
         exit_timestamp |-> SomeStr(event.timestamp),
         coin |-> event.coin,
         side |-> event.side,
         entry_price |-> IF matched THEN entry_event.price ELSE None,
         exit_price |-> event.price,
         quantity |-> IF matched THEN entry_event.quantity ELSE None,
         pnl |-> event.pnl,
         duration_seconds |-> IF matched
                              THEN F(Instant(event.dt) - Instant(entry_event.dt))
                              ELSE None,
         leverage |-> IF matched THEN entry_event.leverage ELSE event.leverage,
         confidence |-> IF matched THEN entry_event.confidence ELSE event.confidence,
         entry_reason |-> IF matched THEN entry_event.reason ELSE "",
         exit_reason |-> event.reason]

\* the difference of the wall-clock readings (faulty variant: UTC offsets ignored)
WallClockDuration(entry_event, event) == F(event.dt.local - entry_event.dt.local)
\* `(event.dt - entry_event.dt).total_seconds()`
Duration(entry_event, event) == F(Instant(event.dt) - Instant(entry_event.dt))

\* the CompletedTrade appended for a CLOSE event, given the key's queue
ClosedTrade(queue, event) ==
    LET matched == queue # <<>>
        entry_event == PopLeft(queue).item
    IN  [entry_timestamp |-> IF matched THEN entry_event.timestamp ELSE event.timestamp,
         exit_timestamp |-> SomeStr(event.timestamp),
         coin |-> event.coin,
         side |-> event.side,
         entry_price |-> IF matched THEN entry_event.price ELSE None,
         exit_price |-> event.price,
         quantity |-> IF matched THEN entry_event.quantity ELSE event.quantity,
         pnl |-> event.pnl,
         duration_seconds |-> IF matched THEN Duration(entry_event, event) ELSE None,
         leverage |-> IF matched THEN entry_event.leverage ELSE event.leverage,
         confidence |-> IF matched THEN entry_event.confidence ELSE event.confidence,
         entry_reason |-> IF matched THEN entry_event.reason ELSE "",
         exit_reason |-> event.reason]

\* (faulty variant) an open position keeps the pnl logged on its ENTRY row
OpenTradeKeepsPnl(entry_event) ==
    [entry_timestamp |-> entry_event.timestamp,
     exit_timestamp |-> NoneStr,
     coin |-> entry_event.coin,
     side |-> entry_event.side,
     entry_price |-> entry_event.price,
     exit_price |-> None,
     quantity |-> entry_event.quantity,
     pnl |-> entry_event.pnl,
     duration_seconds |-> None,
     leverage |-> entry_event.leverage,
     confidence |-> entry_event.confidence,
     entry_reason |-> entry_event.reason,
     exit_reason |-> "Open position"]

\* the CompletedTrade appended for an ENTRY left in its queue
OpenTrade(entry_event) ==
    [entry_timestamp |-> entry_event.timestamp,
     exit_timestamp |-> NoneStr,
     coin |-> entry_event.coin,
     side |-> entry_event.side,
     entry_price |-> entry_event.price,
     exit_price |-> None,
     quantity |-> entry_event.quantity,
     pnl |-> None,
     duration_seconds |-> None,
     leverage |-> entry_event.leverage,
     confidence |-> entry_event.confidence,
     entry_reason |-> entry_event.reason,
     exit_reason |-> "Open position"]

SortKey(trade) == StrOr(trade.exit_timestamp, trade.entry_timestamp)
SortKeyLess(a, b) == StrLess(SortKey(a), SortKey(b))
SortCompleted(trs) ==
    StableSort(trs, [i, j \in 1..Len(trs) |-> SortKeyLess(trs[i], trs[j])])

\* (faulty variant) every action but CLOSE opens a position
PairStepElseEntry(st, event) ==
    IF event.action = "CLOSE"
    THEN [open |-> AfterPop(st.open, EventKey(event)),
          completed |-> Append(st.completed,
                               ClosedTrade(QueueOf(st.open, EventKey(event)), event))]
    ELSE [open |-> PushEntry(st.open, event), completed |-> st.completed]

\* one iteration of `for event in events`
PairStep(st, event) ==
    IF event.action = "ENTRY"
    THEN [open |-> PushEntry(st.open, event), completed |-> st.completed]
    ELSE IF event.action = "CLOSE"
    THEN [open |-> AfterPop(st.open, EventKey(event)),
          completed |-> Append(st.completed,
                               ClosedTrade(QueueOf(st.open, EventKey(event)), event))]
    ELSE st

RECURSIVE PairLoop(_, _)
PairLoop(st, evs) ==
    IF evs = <<>> THEN st ELSE PairLoop(PairStep(st, Head(evs)), Tail(evs))

\* the index of the first non-empty queue in dict order, 0 if none
FirstOpen(open) ==
    IF \E i \in 1..Len(open) : open[i].queue # <<>>
    THEN CHOOSE i \in 1..Len(open) :
            open[i].queue # <<>> /\ \A j \in 1..(i - 1) : open[j].queue = <<>>
    ELSE 0

\* one iteration of `while queue` in the drain loop
DrainStep(st) ==
    LET k == FirstOpen(st.open)
    IN  [open |-> [st.open EXCEPT ![k].queue = PopLeft(@).rest],
         completed |-> Append(st.completed, OpenTrade(PopLeft(st.open[k].queue).item))]

RECURSIVE DrainLoop(_)
DrainLoop(st) == IF FirstOpen(st.open) = 0 THEN st ELSE DrainLoop(DrainStep(st))

\* the value pair_trade_events returns
pair_trade_events(evs) ==
    SortCompleted(DrainLoop(PairLoop([open |-> <<>>, completed |-> <<>>], evs)).completed)

\* ------------------------------------------------------------------ statistics
PercentScale == 100        \* `* 100.0`
SecondsPerHour == 3600     \* `/ 3600.0`

\* `point.equity if point.equity is not None else point.balance`
Candidate(point) == IF ~IsNone(point.equity) THEN point.equity ELSE point.balance

\* the elements reversed(seq) yields
reversed(seq) == [k \in 1..Len(seq) |-> seq[Len(seq) + 1 - k]]
\* the list after list.reverse() (faulty variant of iterating reversed(list))
ScannedInPlace(seq) == reversed(seq)
\* the list after `for point in reversed(portfolio_points)`: reversed() builds
\* an iterator and the list keeps its order
Scanned(seq) == seq

RECURSIVE FirstCandidate(_)
FirstCandidate(pts) ==
    IF pts = <<>> THEN None
    ELSE IF ~IsNone(Candidate(Head(pts))) THEN Candidate(Head(pts))
    ELSE FirstCandidate(Tail(pts))

\* first_equity_value with the faulty preference: balance before equity
FirstBalanceValue(pts) ==
    FirstCandidate([k \in 1..Len(pts) |->
        [pts[k] EXCEPT !.equity = IF ~IsNone(pts[k].balance) THEN pts[k].balance ELSE @]])

\* last_equity_value that looks at the last point only (faulty variant: no scan
\* back over points without equity and balance)
LastPointValue(pts) == IF pts = <<>> THEN None ELSE Candidate(pts[Len(pts)])

first_equity_value(pts) == FirstCandidate(pts)
last_equity_value(pts) == FirstCandidate(reversed(pts))

\* the list `equities` after the None values are filtered out
Equities(pts) ==
    LET all == [k \in 1..Len(pts) |-> Candidate(pts[k])]
    IN  SelectSeq(all, LAMBDA val : ~IsNone(val))

\* values_from_points("hodl_equity")
HodlValues(pts) ==
    LET all == [k \in 1..Len(pts) |-> pts[k].hodl_equity]
    IN  SelectSeq(all, LAMBDA val : ~IsNone(val))

\* truth value of a float: `if peak`
Truthy(x) == ~IsZero(x)

\* one iteration of `for val in equities` with the drawdown left in currency
\* units (faulty variant: `peak - val` is not divided by the peak)
DrawdownStepAbsolute(st, val) ==
    LET peak == IF FLess(st.peak, val) THEN val ELSE st.peak
        drawdown == IF Truthy(peak) THEN FSub(peak, val) ELSE F(0)
    IN  [peak |-> peak,
         worst |-> IF FLess(st.worst, drawdown) THEN drawdown ELSE st.worst]

\* one iteration of `for val in equities` measured from the first value (faulty
\* variant: the peak is never raised)
DrawdownStepFirstPeak(st, val) ==
    LET drawdown == IF Truthy(st.peak) THEN FDiv(FSub(st.peak, val), st.peak) ELSE F(0)
    IN  [peak |-> st.peak,
         worst |-> IF FLess(st.worst, drawdown) THEN drawdown ELSE st.worst]

\* one iteration of `for val in equities`
DrawdownStep(st, val) ==
    LET peak == IF FLess(st.peak, val) THEN val ELSE st.peak
        drawdown == IF Truthy(peak) THEN FDiv(FSub(peak, val), peak) ELSE F(0)
    IN  [peak |-> peak,
         worst |-> IF FLess(st.worst, drawdown) THEN drawdown ELSE st.worst]

RECURSIVE DrawdownLoop(_, _)
DrawdownLoop(st, vals) ==
    IF vals = <<>> THEN st ELSE DrawdownLoop(DrawdownStep(st, Head(vals)), Tail(vals))

MaxDrawdownPct(equities) ==
    IF equities = <<>> THEN None
    ELSE FMul(DrawdownLoop([peak |-> equities[1], worst |-> F(0)], equities).worst,
              F(PercentScale))

\* `start not in (None, 0)` without the zero (faulty variant)
NotNone(start) == ~IsNone(start)
\* `start not in (None, 0)`
NotNoneOrZero(start) == ~IsNone(start) /\ ~IsZero(start)

\* `if start not in (None, 0) and end is not None`
ReturnGuard(start, end) == NotNoneOrZero(start) /\ ~IsNone(end)

\* `((end / start) - 1.0) * 100.0` under its guard; the division raises
\* ZeroDivisionError when it is reached with start = 0
ReturnRaises(start, end) == ReturnGuard(start, end) /\ IsZero(start)
ReturnPct(start, end) ==
    IF ReturnGuard(start, end) /\ ~IsZero(start)
    THEN FMul(FSub(FDiv(end, start), F(1)), F(PercentScale))
    ELSE None

Alpha(net, hodl) ==
    IF ~IsNone(net) /\ ~IsNone(hodl) THEN FSub(net, hodl) ELSE None

\* `[trade.pnl for trade in completed_trades if trade.pnl is not None]`
PnlValues(trs) ==
    LET all == [k \in 1..Len(trs) |-> trs[k].pnl]
    IN  SelectSeq(all, LAMBDA pnl : ~IsNone(pnl))

\* a win counted from pnl >= 0 (faulty variant)
IsWinOrEven(pnl) == ~FLess(pnl, F(0))
\* `pnl > 0`
IsWin(pnl) == FLess(F(0), pnl)

WinRate(pnl_values) ==
    IF pnl_values = <<>> THEN None
    ELSE LET wins == Len(SelectSeq(pnl_values, IsWin))
         IN  FMul(FDiv(F(wins), F(Len(pnl_values))), F(PercentScale))

RuntimeHours(pts) ==
    IF pts = <<>> THEN None
    ELSE LET duration == FDiv(F(Instant(pts[Len(pts)].dt) - Instant(pts[1].dt)),
                              F(SecondsPerHour))
         IN  IF FLess(duration, F(0)) THEN F(0) ELSE duration

\* a ZeroDivisionError leaves compute_stats
StatsRaise(portfolio_points, trades, completed_trades) ==
    \/ ReturnRaises(first_equity_value(portfolio_points),
                    last_equity_value(portfolio_points))
    \/ LET hodl_values == HodlValues(portfolio_points)
       IN  /\ hodl_values # <<>>
           /\ ReturnRaises(hodl_values[1], hodl_values[Len(hodl_values)])

\* the dict compute_stats returns
compute_stats(portfolio_points, trades, completed_trades) ==
    LET start_equity == first_equity_value(portfolio_points)
        end_equity == last_equity_value(portfolio_points)
        net_return_pct == ReturnPct(start_equity, end_equity)
        hodl_values == HodlValues(portfolio_points)
        hodl_start == IF hodl_values # <<>> THEN hodl_values[1] ELSE None
        hodl_end == IF hodl_values # <<>> THEN hodl_values[Len(hodl_values)] ELSE None
        hodl_return_pct == ReturnPct(hodl_start, hodl_end)
    IN  [start_equity |-> start_equity,
         end_equity |-> end_equity,
         net_return_pct |-> net_return_pct,
         hodl_end |-> hodl_end,
         hodl_return_pct |-> hodl_return_pct,
         alpha_vs_hodl |-> Alpha(net_return_pct, hodl_return_pct),
         max_drawdown_pct |-> MaxDrawdownPct(Equities(portfolio_points)),
         total_trades |-> Len(completed_trades),
         win_rate |-> WinRate(PnlValues(completed_trades)),
         runtime_hours |-> RuntimeHours(portfolio_points)]

\* ------------------------------------------------------------------ inputs
PortfolioRow(ts, equity, balance, price) ==
    [timestamp |-> ts, total_balance |-> balance, total_equity |-> equity,
     total_return_pct |-> RawAbsent, num_positions |-> RawAbsent, btc_price |-> price]

\* trade row number i of a log: its numeric cells and its reason are its own
TradeRow(i, ts, action, coin) ==
    [timestamp |-> ts, action |-> action, side |-> "LONG", coin |-> coin,
     price |-> RawNum(10 * i + 1), quantity |-> RawNum(10 * i + 2),
     pnl |-> RawNum(10 * i + 3), balance_after |-> RawAbsent,
     profit_target |-> RawAbsent, stop_loss |-> RawAbsent,
     leverage |-> RawNum(10 * i + 4), confidence |-> RawNum(10 * i + 5),
     reason |-> ToString(i)]

Chronological(records) ==
    \A i \in 1..(Len(records) - 1) :
        Instant(parse_timestamp(records[i].timestamp))
            <= Instant(parse_timestamp(records[i + 1].timestamp))

\* reconciler runs: chronological logs of ENTRY and CLOSE rows of two coins and
\* rows of another action, stamped with the instants 0, 1, 2, and with
\* instant 1 written at UTC offset 1
PairStamps == {TsIso(0, 0), TsIso(1, 0), TsIso(2, 0), TsIso(2, 1)}
PairActions ==
    {<<"ENTRY", "BTC">>, <<"CLOSE", "BTC">>, <<"ENTRY", "ETH">>, <<"CLOSE", "ETH">>,
     <<"HOLD", "BTC">>}
PairChoices == PairStamps \X PairActions
PairRow(i, c) == TradeRow(i, c[1], c[2][1], c[2][2])
PairPortfolio == <<PortfolioRow(TsIso(0, 0), RawNum(8), RawNum(8), RawNum(2))>>

\* timeline runs: row i is stamped i; equity and price cells vary
TimelineChoices == {RawAbsent, RawNum(8), RawNum(12)} \X {RawAbsent, RawNum(0), RawNum(2), RawNum(4)}
TimelineRow(i, c) == PortfolioRow(TsIso(i, 0), c[1], RawAbsent, c[2])

\* whole-pipeline runs: rows in any order, some sharing an instant
PipePortfolioChoices ==
    {<<TsEmpty, RawNum(8)>>, <<TsZulu(0), RawNum(8)>>, <<TsIso(1, 1), RawNum(12)>>,
     <<TsIso(1, 0), RawNum(12)>>}
PipePortfolioRow(i, c) == PortfolioRow(c[1], c[2], RawAbsent, RawNum(2))
PipeTradeChoices ==
    {TsZulu(0), TsIso(1, 1), TsIso(1, 0)} \X {<<"entry", "BTC">>, <<"CLOSE", "BTC">>}

\* statistics runs, timeline side: row i is stamped i; the cells are
\* <<equity, balance, price>> with equity or balance or price missing, a zero or
\* negative equity, a zero balance, a zero price
StatsPointChoices ==
    {<<RawAbsent, RawAbsent, RawAbsent>>, <<RawAbsent, RawNum(6), RawNum(2)>>,
     <<RawNum(8), RawAbsent, RawAbsent>>, <<RawNum(8), RawNum(6), RawNum(2)>>,
     <<RawNum(12), RawAbsent, RawNum(4)>>, <<RawNum(0), RawAbsent, RawNum(2)>>,
     <<RawNum(-4), RawAbsent, RawNum(2)>>, <<RawNum(12), RawAbsent, RawNum(0)>>,
     <<RawAbsent, RawNum(0), RawNum(2)>>}
StatsPointRow(i, c) == PortfolioRow(TsIso(i, 0), c[1], c[2], c[3])
StatsTrades == <<TradeRow(1, TsIso(1, 0), "ENTRY", "BTC")>>

\* statistics runs, trade side: row i is stamped i; an ENTRY, or a CLOSE whose
\* pnl cell is missing, zero, a gain or a loss
StatsTradeChoices ==
    {<<"ENTRY", RawAbsent>>, <<"CLOSE", RawAbsent>>, <<"CLOSE", RawNum(0)>>,
     <<"CLOSE", RawNum(5)>>, <<"CLOSE", RawNum(-5)>>}
StatsTradeRow(i, c) == [TradeRow(i, TsIso(i, 0), c[1], "BTC") EXCEPT !.pnl = c[2]]

\* mark-value runs: snapshots in any order at the instants 1 and 3, row i with
\* equity 10 i and balance 10 i + 1 where it has them; one trade row stamped
\* before, at, between or after the snapshots, with or without balance_after
MarkStamps == {TsIso(1, 0), TsIso(3, 0)}
MarkCells == {<<TRUE, FALSE>>, <<FALSE, TRUE>>, <<FALSE, FALSE>>}
MarkPointChoices == MarkStamps \X MarkCells
MarkPointRow(i, c) ==
    PortfolioRow(c[1],
                 IF c[2][1] THEN RawNum(10 * i) ELSE RawAbsent,
                 IF c[2][2] THEN RawNum(10 * i + 1) ELSE RawAbsent,
                 RawNum(2))
MarkTradeStamps == {TsIso(0, 0), TsIso(1, 0), TsIso(2, 0), TsIso(3, 0), TsIso(4, 0)}
MarkTradeChoices == MarkTradeStamps \X {RawAbsent, RawNum(0)}
MarkTradeRow(i, c) == [TradeRow(i, c[1], "ENTRY", "BTC") EXCEPT !.balance_after = c[2]]

\* runs of main() on damaged logs: timestamps missing, empty, blank or
\* malformed among well-formed ones
MainPortfolioChoices == {TsAbsent, TsEmpty, TsBlank, TsBad, TsIso(1, 0)}
MainPortfolioRow(i, ts) == PortfolioRow(ts, RawNum(8), RawAbsent, RawNum(2))
MainTradeChoices ==
    {<<TsEmpty, "ENTRY">>, <<TsBad, "ENTRY">>,
     <<TsIso(1, 0), "ENTRY">>, <<TsIso(1, 0), "CLOSE">>}
MainTradeRow(i, c) == TradeRow(i, c[1], c[2], "BTC")

\* runs on logs whose numeric cells are damaged: row i is stamped i or has an
\* empty timestamp, and one numeric cell of it is missing, empty, text, a
\* number or an integer beyond the float range
NumericCells == {RawAbsent, RawEmpty, RawJunk, RawNum(8), RawHuge}
NumericChoices == {TRUE, FALSE} \X NumericCells
NumericPointRow(i, c) ==
    PortfolioRow(IF c[1] THEN TsIso(i, 0) ELSE TsEmpty, c[2], RawAbsent, RawNum(2))
NumericTradeRow(i, c) ==
    [TradeRow(i, IF c[1] THEN TsIso(i, 0) ELSE TsEmpty, "ENTRY", "BTC") EXCEPT !.pnl = c[2]]

\* key runs: row i is stamped i; action and side are logged in either case,
\* two coins, two directions
KeyChoices == {"entry", "CLOSE"} \X {"long", "LONG", "SHORT"} \X {"BTC", "ETH"}
KeyRow(i, c) == [TradeRow(i, TsIso(i, 0), c[1], c[3]) EXCEPT !.side = c[2]]

\* ------------------------------------------------------------------ state
VARIABLES
    pc,                 \* where main() is
    portfolio_records,  \* load_records(portfolio_state)
    trade_records,      \* load_records(trade_history)
    points,             \* build_portfolio_points: points / main: portfolio_points
    btc_units,          \* build_portfolio_points: btc_units
    pi,                 \* index of the point the benchmark loop is at
    events,             \* build_trade_events: events / main: trades
    ei,                 \* index of the event the pairing loop is at
    open_positions,     \* pair_trade_events: open_positions
    completed,          \* pair_trade_events: completed / main: completed_trades
    stats,              \* main: stats
    output_written,     \* whether args.output has been written
    maxFrame,           \* render_html: max_frame / script: maxFrame
    currentFrame,       \* script: currentFrame
    playing,            \* script: playing
    rafId,              \* script: rafId
    pending,            \* handles of the animation-frame callbacks the browser holds
    lastTime,           \* script: timestamp - step.lastTime at the latest frame
    speed,              \* script: speedSelect.value
    userActive          \* whether the viewer is still at the controls

vars == <<pc, portfolio_records, trade_records, points, btc_units, pi, events, ei,
          open_positions, completed, stats, output_written,
          maxFrame, currentFrame, playing, rafId, pending, lastTime, speed, userActive>>

\* the variables of the playback script
script == <<currentFrame, playing, rafId, pending, lastTime, speed, userActive>>

\* rafId = null
NullId == 0

\* step.lastTime undefined or null
NoTime == -1

\* the script's state when the page has loaded
ScriptStart ==
    /\ currentFrame = 0
    /\ playing = FALSE
    /\ rafId = NullId
    /\ pending = {}
    /\ lastTime = NoTime
    /\ speed = 1
    /\ userActive = TRUE

\* main's `stats` before compute_stats has returned
NoStats ==
    [start_equity |-> None, end_equity |-> None, net_return_pct |-> None,
     hodl_end |-> None, hodl_return_pct |-> None, alpha_vs_hodl |-> None,
     max_drawdown_pct |-> None, total_trades |-> 0, win_rate |-> None,
     runtime_hours |-> None]

\* main() after both load_records calls
Init ==
    /\ \E n \in 0..MaxPipeRows : \E f \in [1..n -> PipePortfolioChoices] :
            portfolio_records = [i \in 1..n |-> PipePortfolioRow(i, f[i])]
    /\ \E n \in 0..MaxPipeRows : \E f \in [1..n -> PipeTradeChoices] :
            trade_records = [i \in 1..n |-> PairRow(i, f[i])]
    /\ pc = "build_portfolio_points"
    /\ points = <<>>
    /\ btc_units = None
    /\ pi = 1
    /\ events = <<>>
    /\ ei = 1
    /\ open_positions = <<>>
    /\ completed = <<>>
    /\ stats = NoStats
    /\ output_written = FALSE
    /\ maxFrame = 0
    /\ ScriptStart

\* build_portfolio_points up to the benchmark loop: parse, sort, empty check
BuildPoints ==
    /\ pc = "build_portfolio_points"
    /\ IF \/ Raises(portfolio_records) \/ PointCellsRaise(portfolio_records)
          \/ Usable(portfolio_records) = <<>>
       THEN pc' = "error" /\ points' = points
       ELSE pc' = "hodl_pass" /\ points' = SortPoints(ParsePoints(portfolio_records))
    /\ btc_units' = None
    /\ pi' = 1
    /\ UNCHANGED <<script, maxFrame, portfolio_records, trade_records, events, ei, open_positions, completed,
                   stats, output_written>>

\* one iteration of `for point in points`; the function returns after the last
HodlStep ==
    /\ pc = "hodl_pass"
    /\ pi <= Len(points)
    /\ btc_units' = StepUnits(btc_units, points[pi])
    /\ points' = [points EXCEPT ![pi].hodl_equity = StepHodl(btc_units, points[pi])]
    /\ pi' = pi + 1
    /\ pc' = IF pi = Len(points) THEN "build_trade_events" ELSE "hodl_pass"
    /\ UNCHANGED <<script, maxFrame, portfolio_records, trade_records, events, ei, open_positions, completed,
                   stats, output_written>>

\* build_trade_events, then the first lines of pair_trade_events
BuildEvents ==
    /\ pc = "build_trade_events"
    /\ IF \/ Raises(trade_records) \/ EventCellsRaise(trade_records)
          \/ Usable(trade_records) = <<>>
       THEN pc' = "error" /\ events' = events
       ELSE pc' = "pair_loop" /\ events' = build_trade_events(trade_records, points)
    /\ ei' = 1
    /\ open_positions' = <<>>
    /\ completed' = <<>>
    /\ UNCHANGED <<script, maxFrame, portfolio_records, trade_records, points, btc_units, pi,
                   stats, output_written>>

\* one iteration of `for event in events`
PairEvent ==
    /\ pc = "pair_loop"
    /\ ei <= Len(events)
    /\ LET st == PairStep([open |-> open_positions, completed |-> completed], events[ei])
       IN  open_positions' = st.open /\ completed' = st.completed
    /\ ei' = ei + 1
    /\ pc' = IF ei = Len(events) THEN "pair_drain" ELSE "pair_loop"
    /\ UNCHANGED <<script, maxFrame, portfolio_records, trade_records, points, btc_units, pi, events,
                   stats, output_written>>

\* one iteration of `while queue` of the drain loop
DrainPop ==
    /\ pc = "pair_drain"
    /\ FirstOpen(open_positions) # 0
    /\ LET st == DrainStep([open |-> open_positions, completed |-> completed])
       IN  open_positions' = st.open /\ completed' = st.completed
    /\ UNCHANGED <<script, maxFrame, pc, portfolio_records, trade_records, points, btc_units, pi, events, ei,
                   stats, output_written>>

\* the final sort and the return to main
PairReturn ==
    /\ pc = "pair_drain"
    /\ FirstOpen(open_positions) = 0
    /\ completed' = SortCompleted(completed)
    /\ pc' = "compute_stats"
    /\ UNCHANGED <<script, maxFrame, portfolio_records, trade_records, points, btc_units, pi, events, ei,
                   open_positions,
                   stats, output_written>>

\* compute_stats
ComputeStats ==
    /\ pc = "compute_stats"
    /\ IF StatsRaise(points, events, completed)
       THEN pc' = "error" /\ stats' = stats
       ELSE pc' = "render_html" /\ stats' = compute_stats(points, events, completed)
    /\ points' = Scanned(points)
    /\ UNCHANGED <<script, maxFrame, portfolio_records, trade_records, btc_units, pi, events, ei,
                   open_positions, completed, output_written>>

\* render_html: max_frame
max_frame(portfolio_points) ==
    IF Len(portfolio_points) - 1 > 0 THEN Len(portfolio_points) - 1 ELSE 0

\* render_html and args.output.write_text
WriteOutput ==
    /\ pc = "render_html"
    /\ output_written' = TRUE
    /\ pc' = "done"
    /\ maxFrame' = max_frame(points)
    /\ UNCHANGED <<script, portfolio_records, trade_records, points, btc_units, pi, events, ei,
                   open_positions, completed, stats>>

Next ==
    \/ BuildPoints \/ HodlStep \/ BuildEvents \/ PairEvent \/ DrainPop \/ PairReturn
    \/ ComputeStats \/ WriteOutput

Spec == Init /\ [][Next]_vars

\* main() after both load_records calls, on logs that exercise the statistics:
\* either the snapshots vary or the trades do
InitStats ==
    /\ \/ /\ \E n \in 1..MaxPoints : \E f \in [1..n -> StatsPointChoices] :
                portfolio_records = [i \in 1..n |-> StatsPointRow(i, f[i])]
          /\ trade_records = StatsTrades
       \/ /\ portfolio_records = PairPortfolio
          /\ \E n \in 1..MaxRows : \E f \in [1..n -> StatsTradeChoices] :
                trade_records = [i \in 1..n |-> StatsTradeRow(i, f[i])]
    /\ pc = "build_portfolio_points"
    /\ points = <<>>
    /\ btc_units = None
    /\ pi = 1
    /\ events = <<>>
    /\ ei = 1
    /\ open_positions = <<>>
    /\ completed = <<>>
    /\ stats = NoStats
    /\ output_written = FALSE
    /\ maxFrame = 0
    /\ ScriptStart

SpecStats == InitStats /\ [][Next]_vars

\* main() after both load_records calls, on logs that exercise the mark value
InitMark ==
    /\ \E n \in 1..MaxPoints : \E f \in [1..n -> MarkPointChoices] :
            portfolio_records = [i \in 1..n |-> MarkPointRow(i, f[i])]
    /\ \E c \in MarkTradeChoices : trade_records = <<MarkTradeRow(1, c)>>
    /\ pc = "build_portfolio_points"
    /\ points = <<>>
    /\ btc_units = None
    /\ pi = 1
    /\ events = <<>>
    /\ ei = 1
    /\ open_positions = <<>>
    /\ completed = <<>>
    /\ stats = NoStats
    /\ output_written = FALSE
    /\ maxFrame = 0
    /\ ScriptStart

NextMark == BuildPoints \/ HodlStep \/ BuildEvents

SpecMark == InitMark /\ [][NextMark]_vars

\* main() before it reads its inputs
InitMain ==
    /\ pc = "load_portfolio_state"
    /\ portfolio_records = <<>>
    /\ trade_records = <<>>
    /\ points = <<>>
    /\ btc_units = None
    /\ pi = 1
    /\ events = <<>>
    /\ ei = 1
    /\ open_positions = <<>>
    /\ completed = <<>>
    /\ stats = NoStats
    /\ output_written = FALSE
    /\ maxFrame = 0
    /\ ScriptStart

\* portfolio_records = load_records(data_dir / "portfolio_state")
LoadPortfolio ==
    /\ pc = "load_portfolio_state"
    /\ \E n \in 0..MaxPipeRows : \E f \in [1..n -> MainPortfolioChoices] :
            portfolio_records' = [i \in 1..n |-> MainPortfolioRow(i, f[i])]
    /\ pc' = "load_trade_history"
    /\ UNCHANGED <<script, maxFrame, trade_records, points, btc_units, pi, events, ei, open_positions,
                   completed, stats, output_written>>

\* trade_records = load_records(data_dir / "trade_history")
LoadTrades ==
    /\ pc = "load_trade_history"
    /\ \E n \in 0..MaxPipeRows : \E f \in [1..n -> MainTradeChoices] :
            trade_records' = [i \in 1..n |-> MainTradeRow(i, f[i])]
    /\ pc' = "build_portfolio_points"
    /\ UNCHANGED <<script, maxFrame, portfolio_records, points, btc_units, pi, events, ei, open_positions,
                   completed, stats, output_written>>

NextMain == LoadPortfolio \/ LoadTrades \/ Next

SpecMain == InitMain /\ [][NextMain]_vars

\* main() does not stop between its statements: once a load or a builder can
\* run, it runs (the stages that a fatal condition of the logs can end)
SpecMainFair ==
    /\ SpecMain
    /\ WF_vars(LoadPortfolio) /\ WF_vars(LoadTrades)
    /\ WF_vars(BuildPoints) /\ WF_vars(HodlStep) /\ WF_vars(BuildEvents)

\* main() after both load_records calls, on logs with damaged numeric cells:
\* either the snapshots are damaged or the trades are
InitNumeric ==
    /\ \/ /\ \E n \in 1..MaxPoints : \E f \in [1..n -> NumericChoices] :
                portfolio_records = [i \in 1..n |-> NumericPointRow(i, f[i])]
          /\ trade_records = StatsTrades
       \/ /\ portfolio_records = PairPortfolio
          /\ \E n \in 1..MaxRows : \E f \in [1..n -> NumericChoices] :
                trade_records = [i \in 1..n |-> NumericTradeRow(i, f[i])]
    /\ pc = "build_portfolio_points"
    /\ points = <<>>
    /\ btc_units = None
    /\ pi = 1
    /\ events = <<>>
    /\ ei = 1
    /\ open_positions = <<>>
    /\ completed = <<>>
    /\ stats = NoStats
    /\ output_written = FALSE
    /\ maxFrame = 0
    /\ ScriptStart

SpecNumeric == InitNumeric /\ [][NextMark]_vars

\* main() about to call build_trade_events on a log of two coins and two
\* directions written in mixed case
InitKeys ==
    /\ portfolio_records = PairPortfolio
    /\ \E n \in 1..MaxRows : \E f \in [1..n -> KeyChoices] :
            trade_records = [i \in 1..n |-> KeyRow(i, f[i])]
    /\ pc = "build_trade_events"
    /\ points = build_portfolio_points(portfolio_records)
    /\ btc_units = StepUnits(None, MakePoint(PairPortfolio[1]))
    /\ pi = Len(PairPortfolio) + 1
    /\ events = <<>>
    /\ ei = 1
    /\ open_positions = <<>>
    /\ completed = <<>>
    /\ stats = NoStats
    /\ output_written = FALSE
    /\ maxFrame = 0
    /\ ScriptStart

NextKeys == BuildEvents \/ PairEvent \/ DrainPop \/ PairReturn

SpecKeys == InitKeys /\ [][NextKeys]_vars

\* pair_trade_events entered with the events of a chronological log
InitPair ==
    /\ portfolio_records = PairPortfolio
    /\ \E n \in 1..MaxRows : \E f \in [1..n -> PairChoices] :
            trade_records = [i \in 1..n |-> PairRow(i, f[i])]
    /\ Chronological(trade_records)
    /\ pc = "pair_loop"
    /\ points = build_portfolio_points(portfolio_records)
    /\ btc_units = StepUnits(None, MakePoint(PairPortfolio[1]))
    /\ pi = Len(PairPortfolio) + 1
    /\ events = build_trade_events(trade_records, points)
    /\ ei = 1
    /\ open_positions = <<>>
    /\ completed = <<>>
    /\ stats = NoStats
    /\ output_written = FALSE
    /\ maxFrame = 0
    /\ ScriptStart

NextPair == PairEvent \/ DrainPop \/ PairReturn

SpecPair == InitPair /\ [][NextPair]_vars

\* build_portfolio_points called on a chronological snapshot log
InitTimeline ==
    /\ \E n \in 0..MaxPoints : \E f \in [1..n -> TimelineChoices] :
            portfolio_records = [i \in 1..n |-> TimelineRow(i, f[i])]
    /\ trade_records = <<>>
    /\ pc = "build_portfolio_points"
    /\ points = <<>>
    /\ btc_units = None
    /\ pi = 1
    /\ events = <<>>
    /\ ei = 1
    /\ open_positions = <<>>
    /\ completed = <<>>
    /\ stats = NoStats
    /\ output_written = FALSE
    /\ maxFrame = 0
    /\ ScriptStart

NextTimeline == BuildPoints \/ HodlStep

SpecTimeline == InitTimeline /\ [][NextTimeline]_vars

\* ------------------------------------------------------------------ reading a run
\* Every row of a log carries its own reason, so an event is recognised in a
\* CompletedTrade by entry_reason / exit_reason.
Tag(i) == events[i].reason
IsEntry(i) == events[i].action = "ENTRY"
IsClose(i) == events[i].action = "CLOSE"
Consumed == 1..(ei - 1)
Returned == pc = "compute_stats"

EntryRecords(tag) == {j \in 1..Len(completed) : completed[j].entry_reason = tag}
ExitRecords(tag) == {j \in 1..Len(completed) : completed[j].exit_reason = tag}
Slots ==
    UNION {{<<k, q>> : q \in 1..Len(open_positions[k].queue)} : k \in 1..Len(open_positions)}
QueueSlots(tag) == {p \in Slots : open_positions[p[1]].queue[p[2]].reason = tag}
QueuesEmpty == \A k \in 1..Len(open_positions) : open_positions[k].queue = <<>>

\* the number of ENTRY events of `key` waiting after the first n events,
\* counted without the queues
RECURSIVE Backlog(_, _)
Backlog(n, key) ==
    IF n = 0 THEN 0
    ELSE LET b == Backlog(n - 1, key)
         IN  IF EventKey(events[n]) # key THEN b
             ELSE IF IsEntry(n) THEN b + 1
             ELSE IF IsClose(n) /\ b > 0 THEN b - 1
             ELSE b

RECURSIVE SumBacklog(_)
SumBacklog(keys) ==
    IF keys = {} THEN 0
    ELSE LET k == CHOOSE k \in keys : TRUE
         IN  Backlog(Len(events), k) + SumBacklog(keys \ {k})

LeftOpen == SumBacklog({EventKey(events[i]) : i \in 1..Len(events)})
NumCloses == Cardinality({i \in 1..Len(events) : IsClose(i)})

\* the record a consumed CLOSE event produced
RecordOf(c) == completed[CHOOSE j \in ExitRecords(Tag(c)) : TRUE]

\* C1: conservation.  At every point of a run each consumed CLOSE is the exit
\* of exactly one record, each consumed ENTRY is either in exactly one queue
\* slot or the entry of exactly one record (never both, never twice), and the
\* list returned has as many records as there are CLOSE events plus ENTRY
\* events left waiting at end-of-stream.
C1_Conservation ==
    /\ \A i \in Consumed :
        /\ IsClose(i) =>
            Cardinality(ExitRecords(Tag(i))) = 1 /\ EntryRecords(Tag(i)) = {}
        /\ IsEntry(i) =>
            /\ Cardinality(EntryRecords(Tag(i))) + Cardinality(QueueSlots(Tag(i))) = 1
            /\ ExitRecords(Tag(i)) = {}
    /\ Returned => Len(completed) = NumCloses + LeftOpen

C1_Witness ==
    /\ Returned
    /\ NumCloses >= 1
    /\ LeftOpen >= 1
    /\ \E j \in 1..Len(completed) :
        completed[j].exit_timestamp.some /\ completed[j].entry_reason # ""

\* the ENTRY events of the key of the CLOSE event c that no earlier CLOSE took
TakenBefore(i, c) ==
    \E j \in EntryRecords(Tag(i)) : \E c2 \in 1..(c - 1) :
        IsClose(c2) /\ completed[j].exit_reason = Tag(c2)
Waiting(c) ==
    {i \in 1..(c - 1) :
        IsEntry(i) /\ EventKey(events[i]) = EventKey(events[c]) /\ ~TakenBefore(i, c)}
Oldest(S) == CHOOSE i \in S : \A k \in S : i <= k

\* C2: FIFO matching.  A consumed CLOSE whose key had ENTRY events waiting is
\* paired with the one pushed first and with no later one.
C2_Fifo ==
    \A c \in Consumed :
        (IsClose(c) /\ Waiting(c) # {}) =>
            /\ ExitRecords(Tag(c)) # {}
            /\ RecordOf(c).entry_reason = Tag(Oldest(Waiting(c)))
            /\ RecordOf(c).entry_timestamp = events[Oldest(Waiting(c))].timestamp

\* ENTRY at t1, ENTRY at t2 > t1, CLOSE at t3 > t2 of one key: the CLOSE took
\* the first and the second is still waiting
C2_Witness ==
    /\ pc = "pair_drain"
    /\ Len(events) = 3
    /\ IsEntry(1) /\ IsEntry(2) /\ IsClose(3)
    /\ Instant(events[1].dt) < Instant(events[2].dt)
    /\ Instant(events[2].dt) < Instant(events[3].dt)
    /\ Waiting(3) = {1, 2}
    /\ RecordOf(3).entry_reason = Tag(1)
    /\ QueueSlots(Tag(2)) # {}

\* the consumed CLOSE events that found their key's queue empty or missing
Orphans == {c \in Consumed : IsClose(c) /\ Backlog(c - 1, EventKey(events[c])) = 0}

RecordsOf(i) == EntryRecords(Tag(i)) \cup ExitRecords(Tag(i))

\* C4 as stated: every event, whatever its action, is in exactly one record
\* of the list returned.
C4_EveryEventOnce ==
    Returned => \A i \in 1..Len(events) : Cardinality(RecordsOf(i)) = 1

\* C4 amended: every ENTRY and every CLOSE event is in exactly one record of
\* the list returned; an event with any other action is in none.
C4_EntryCloseOnce ==
    Returned =>
        \A i \in 1..Len(events) :
            Cardinality(RecordsOf(i)) = IF IsEntry(i) \/ IsClose(i) THEN 1 ELSE 0

C4_Witness ==
    /\ Returned
    /\ \E i, j, k \in 1..Len(events) :
        /\ IsEntry(i) /\ IsClose(j) /\ ~IsEntry(k) /\ ~IsClose(k)
        /\ RecordsOf(k) = {}

\* an open-position record: every exit field absent
IsOpenRecord(r) ==
    /\ r.exit_timestamp = NoneStr
    /\ IsNone(r.exit_price)
    /\ IsNone(r.pnl)
    /\ IsNone(r.duration_seconds)
    /\ r.exit_reason = "Open position"

\* C5: open-position drain.  Once every event is consumed, each ENTRY is in a
\* queue, or the entry of one record closed by a CLOSE event, or the entry of
\* one open-position record, and exactly one of the three; when the function
\* returns no ENTRY is in a queue and every queue is empty.
C5_Drain ==
    pc \in {"pair_drain", "compute_stats"} =>
        /\ \A i \in 1..Len(events) :
            IsEntry(i) =>
                \/ /\ Cardinality(QueueSlots(Tag(i))) = 1
                   /\ EntryRecords(Tag(i)) = {}
                   /\ ~Returned
                \/ /\ QueueSlots(Tag(i)) = {}
                   /\ \E j \in 1..Len(completed) :
                        /\ EntryRecords(Tag(i)) = {j}
                        /\ \/ IsOpenRecord(completed[j])
                           \/ \E c \in 1..Len(events) :
                                IsClose(c) /\ completed[j].exit_reason = Tag(c)
        /\ Returned => QueuesEmpty
        /\ Returned => Cardinality({j \in 1..Len(completed) : IsOpenRecord(completed[j])})
                            = LeftOpen

C5_Witness ==
    /\ Returned
    /\ LeftOpen >= 2
    /\ Len(open_positions) >= 2
    /\ \E j \in 1..Len(completed) :
        IsOpenRecord(completed[j]) /\ ~IsNone(completed[j].entry_price)

\* the instant an isoformat string denotes
InstantOf(s) == s[1] - s[2]
ChronoKey(trade) == InstantOf(StrOr(trade.exit_timestamp, trade.entry_timestamp))

\* C6: final ordering.  The list returned is non-decreasing in the instant of
\* each trade's exit timestamp (entry timestamp for an open trade).
C6_ChronologicalOrder ==
    Returned =>
        \A i, j \in 1..Len(completed) :
            i < j => ChronoKey(completed[i]) <= ChronoKey(completed[j])

\* ------------------------------------------------------------------ the builders
NonDecreasing(seq) ==
    \A i \in 1..(Len(seq) - 1) : Instant(seq[i].dt) <= Instant(seq[i + 1].dt)

AtInstant(seq, t) == SelectSeq(seq, LAMBDA x : Instant(x.dt) = t)
Instants(seq) == {Instant(seq[i].dt) : i \in 1..Len(seq)}

\* `sorted` holds the rows of `parsed`, those of equal instant in parsed's order
StablySorted(sorted, parsed) ==
    /\ Len(sorted) = Len(parsed)
    /\ NonDecreasing(sorted)
    /\ \A t \in Instants(parsed) : AtInstant(sorted, t) = AtInstant(parsed, t)

WithoutHodl(pts) == [i \in 1..Len(pts) |-> [pts[i] EXCEPT !.hodl_equity = None]]
PointsBuilt == pc \notin {"build_portfolio_points", "error"}
EventsBuilt == pc \in {"pair_loop", "pair_drain", "compute_stats", "render_html", "done"}

\* C7: sort invariant.  What build_portfolio_points and build_trade_events
\* return is non-decreasing by instant, and rows of equal instant keep their
\* input order.
C7_SortInvariant ==
    /\ PointsBuilt => StablySorted(WithoutHodl(points), ParsePoints(portfolio_records))
    /\ EventsBuilt => StablySorted(events, ParseEvents(trade_records, points))

\* the snapshots arrive out of order, and two trade rows written with different
\* offsets denote one instant
C7_Witness ==
    /\ EventsBuilt
    /\ WithoutHodl(points) # ParsePoints(portfolio_records)
    /\ \E i, j \in 1..Len(events) :
        i < j /\ Instant(events[i].dt) = Instant(events[j].dt) /\ events[i].dt # events[j].dt

Reorderings(seq) ==
    {[i \in 1..Len(seq) |-> seq[f[i]]] :
        f \in {g \in [1..Len(seq) -> 1..Len(seq)] :
                \A a, b \in 1..Len(seq) : g[a] = g[b] => a = b}}

\* the pipeline run on `pr` and `tr` returns what this run returned
SameOutput(pr, tr) ==
    LET p == build_portfolio_points(pr)
        e == build_trade_events(tr, p)
    IN  p = points /\ e = events /\ pair_trade_events(e) = completed

DistinctInstants(records) ==
    \A i, j \in 1..Len(Usable(records)) :
        i # j => Instant(parse_timestamp(Usable(records)[i].timestamp))
                    # Instant(parse_timestamp(Usable(records)[j].timestamp))

\* C8 as stated: the pipeline returns the same points, events and completed
\* trades on every permutation of the portfolio rows and of the trade rows.
C8_AnyInputOrder ==
    Returned =>
        \A pr \in Reorderings(portfolio_records) :
            \A tr \in Reorderings(trade_records) : SameOutput(pr, tr)

\* C8 amended: it does so when no two rows of a dataset are stamped with the
\* same instant.
C8_DistinctInstantsAnyOrder ==
    (Returned /\ DistinctInstants(portfolio_records) /\ DistinctInstants(trade_records)) =>
        \A pr \in Reorderings(portfolio_records) :
            \A tr \in Reorderings(trade_records) : SameOutput(pr, tr)

C8_Witness ==
    /\ Returned
    /\ DistinctInstants(portfolio_records) /\ DistinctInstants(trade_records)
    /\ Len(points) = 2 /\ Len(events) = 2
    /\ WithoutHodl(points) # ParsePoints(portfolio_records)
    /\ events # ParseEvents(trade_records, points)
    /\ \E j \in 1..Len(completed) :
        completed[j].exit_timestamp.some /\ completed[j].entry_reason # ""

\* ------------------------------------------------------------------ the benchmark
Anchors == {i \in 1..Len(points) : ~IsNone(points[i].equity) /\ PriceUsable(points[i])}
HasAnchor == Anchors # {}
Anchor == CHOOSE i \in Anchors : \A k \in Anchors : i <= k
AnchorUnits == FDiv(points[Anchor].equity, points[Anchor].btc_price)
\* the points the benchmark loop has been over
Passed == 1..(pi - 1)
PassDone == pc \notin {"build_portfolio_points", "hodl_pass", "error"}

\* C9 as stated: from the anchor on, hodl_equity = units * price and is absent
\* only where the price is missing (so it is 0 where the price is 0); before
\* the anchor it is absent.
C9_AbsentOnlyIfPriceMissing ==
    \A i \in Passed :
        IF HasAnchor /\ i >= Anchor
        THEN points[i].hodl_equity =
                IF IsNone(points[i].btc_price) THEN None
                ELSE FMul(AnchorUnits, points[i].btc_price)
        ELSE IsNone(points[i].hodl_equity)

\* C9 amended: the units are fixed at the first point with equity present and
\* price present and non-zero; from that point on hodl_equity = units * price,
\* absent exactly where the price is missing or zero; before it, absent.
C9_BenchmarkSeries ==
    /\ \A i \in Passed :
        IF HasAnchor /\ i >= Anchor
        THEN points[i].hodl_equity =
                IF PriceUsable(points[i]) THEN FMul(AnchorUnits, points[i].btc_price)
                ELSE None
        ELSE IsNone(points[i].hodl_equity)
    /\ btc_units = IF HasAnchor /\ Anchor \in Passed THEN AnchorUnits ELSE None

C9_Witness ==
    /\ PassDone
    /\ Len(points) = 3
    /\ HasAnchor /\ Anchor = 2
    /\ IsNone(points[1].hodl_equity)
    /\ points[2].hodl_equity = points[2].equity
    /\ IsZero(points[3].btc_price)
    /\ IsNone(points[3].hodl_equity)

\* C10: benchmark freeze.  No step changes a unit count that is set, and two
\* points at or after the anchor with the same price have the same hodl_equity.
C10_Freeze ==
    /\ [][~IsNone(btc_units) => btc_units' = btc_units]_vars
    /\ [](\A i, j \in Passed :
            (HasAnchor /\ i >= Anchor /\ j >= Anchor
                /\ points[i].btc_price = points[j].btc_price)
            => points[i].hodl_equity = points[j].hodl_equity)

\* anchor, then a point of other equity and zero price, then the anchor's price
\* again at another equity
C10_Witness ==
    /\ PassDone
    /\ Len(points) = 3
    /\ HasAnchor /\ Anchor = 1
    /\ IsZero(points[2].btc_price)
    /\ points[3].btc_price = points[1].btc_price
    /\ ~IsNone(points[3].equity) /\ points[3].equity # points[1].equity
    /\ points[3].hodl_equity = points[1].hodl_equity
    /\ ~IsNone(points[3].hodl_equity)

\* ------------------------------------------------------------------ the statistics
StatsDone == pc \in {"render_html", "done"}
\* the points with an effective equity (equity, else balance)
Effective == {i \in 1..Len(points) : ~IsNone(points[i].equity) \/ ~IsNone(points[i].balance)}
EffectiveAt(i) == IF ~IsNone(points[i].equity) THEN points[i].equity ELSE points[i].balance
FirstEffective == CHOOSE i \in Effective : \A k \in Effective : i <= k
LastEffective == CHOOSE i \in Effective : \A k \in Effective : k <= i
\* the points with a benchmark value
WithHodl == {i \in 1..Len(points) : ~IsNone(points[i].hodl_equity)}
FirstHodl == CHOOSE i \in WithHodl : \A k \in WithHodl : i <= k
LastHodl == CHOOSE i \in WithHodl : \A k \in WithHodl : k <= i

\* C11 as stated: wherever the timeline has a benchmark value and an effective
\* equity, the first benchmark value equals start_equity.
C11_FairStart ==
    (StatsDone /\ WithHodl # {} /\ Effective # {})
        => points[FirstHodl].hodl_equity = stats.start_equity

\* C11 amended: the first benchmark value sits on the anchor (the first point
\* with equity present and price present and non-zero) and equals that point's
\* equity; it equals start_equity when no earlier point has an effective equity,
\* and start_equity is the effective equity of that earlier point otherwise.
C11_BenchmarkStart ==
    (StatsDone /\ WithHodl # {})
        => /\ HasAnchor /\ FirstHodl = Anchor
           /\ points[FirstHodl].hodl_equity = points[Anchor].equity
           /\ stats.start_equity = EffectiveAt(FirstEffective)
           /\ FirstEffective = Anchor
                => points[FirstHodl].hodl_equity = stats.start_equity

\* the anchor is the first point with an effective equity and carries a balance
\* other than its equity; and a run whose anchor comes after a point of another equity
C11_Witness ==
    /\ StatsDone
    /\ HasAnchor /\ FirstEffective = Anchor
    /\ ~IsNone(points[Anchor].balance) /\ points[Anchor].balance # points[Anchor].equity
    /\ points[FirstHodl].hodl_equity = stats.start_equity

\* ------------------------------------------------------------------ the mark value
\* the points at or before the instant of event i
AtOrBefore(i) == {k \in 1..Len(points) : Instant(points[k].dt) <= Instant(events[i].dt)}
\* the last of them in timeline order, found by scanning the timeline left to right
RECURSIVE LastKnown(_, _, _)
LastKnown(i, k, found) ==
    IF k > Len(points) THEN found
    ELSE LastKnown(i, k + 1, IF k \in AtOrBefore(i) THEN k ELSE found)

\* C12: mark value.  plot_value is the event's own balance_after when it has
\* one; otherwise the effective equity of the rightmost point at or before the
\* event, absent when there is no such point or it has no effective equity.
C12_MarkValue ==
    EventsBuilt =>
        \A i \in 1..Len(events) :
            events[i].plot_value =
                IF ~IsNone(events[i].balance_after) THEN events[i].balance_after
                ELSE IF LastKnown(i, 1, 0) = 0 THEN None
                ELSE EffectiveAt(LastKnown(i, 1, 0))

\* three points, two of them at the event's instant: the value comes from the
\* later of the two, not from the point after them
C12_Witness ==
    /\ EventsBuilt
    /\ Len(points) = 3 /\ Len(events) = 1
    /\ IsNone(events[1].balance_after)
    /\ AtOrBefore(1) = {1, 2}
    /\ Instant(points[1].dt) = Instant(events[1].dt)
    /\ ~IsNone(EffectiveAt(1)) /\ ~IsNone(EffectiveAt(2)) /\ ~IsNone(EffectiveAt(3))
    /\ events[1].plot_value = EffectiveAt(2)
    /\ events[1].plot_value # EffectiveAt(1)

\* ------------------------------------------------------------------ timestamps of damaged logs
\* rows by their timestamp cell: missing (no key, None, ""), malformed (present
\* but not ISO-8601: white space only, or other text), well-formed
Missing(row) == row.timestamp.kind \in {"absent", "empty"}
Malformed(row) == row.timestamp.kind \in {"blank", "bad"}
AnyMalformed(records) == \E i \in 1..Len(records) : Malformed(records[i])
Kept(records) == SelectSeq(records, LAMBDA row : ~Missing(row) /\ ~Malformed(row))
KeptStamp(row) ==
    <<row.timestamp.local, IF row.timestamp.z THEN 0 ELSE row.timestamp.off>>
Loading == pc \in {"load_portfolio_state", "load_trade_history"}
\* build_portfolio_points has returned or raised
PointsStageOver == ~Loading /\ pc # "build_portfolio_points"
\* build_trade_events has returned or raised
EventsStageOver == PointsStageOver /\ points # <<>> /\ pc \notin {"hodl_pass", "build_trade_events"}

\* C13: timestamp error taxonomy.  In both builders a malformed timestamp ends
\* the run with an error and nothing is returned; otherwise the rows with a
\* missing timestamp are dropped and every other row yields one element.
C13_TimestampTaxonomy ==
    /\ PointsStageOver =>
        IF AnyMalformed(portfolio_records) THEN pc = "error" /\ points = <<>>
        ELSE Kept(portfolio_records) # <<>> =>
                /\ Len(points) = Len(Kept(portfolio_records))
                /\ \A i \in 1..Len(Kept(portfolio_records)) :
                        Cardinality({k \in 1..Len(points) :
                            points[k].timestamp = KeptStamp(Kept(portfolio_records)[i])})
                        = Cardinality({k \in 1..Len(Kept(portfolio_records)) :
                            KeptStamp(Kept(portfolio_records)[k])
                                = KeptStamp(Kept(portfolio_records)[i])})
    /\ EventsStageOver =>
        IF AnyMalformed(trade_records) THEN pc = "error" /\ events = <<>>
        ELSE Kept(trade_records) # <<>> =>
                /\ pc # "error"
                /\ Len(events) = Len(Kept(trade_records))
                /\ \A i \in 1..Len(Kept(trade_records)) :
                        \E k \in 1..Len(events) :
                            /\ events[k].reason = Kept(trade_records)[i].reason
                            /\ events[k].timestamp = KeptStamp(Kept(trade_records)[i])

\* both builders have dropped a row without a timestamp and kept another
C13_Witness ==
    /\ EventsBuilt
    /\ \E i \in 1..Len(portfolio_records) : portfolio_records[i].timestamp.kind = "absent"
    /\ \E i \in 1..Len(trade_records) : trade_records[i].timestamp.kind = "empty"
    /\ Len(points) = 1 /\ Len(portfolio_records) = 2
    /\ Len(events) = 1 /\ Len(trade_records) = 2

\* ------------------------------------------------------------------ fatal conditions
\* both logs are loaded and one of them has a malformed timestamp or no usable row
Fatal ==
    /\ ~Loading
    /\ \/ AnyMalformed(portfolio_records) \/ Kept(portfolio_records) = <<>>
       \/ AnyMalformed(trade_records) \/ Kept(trade_records) = <<>>

\* C14: fatal conditions produce no partial output.  A run with a fatal
\* condition ends in an error, takes no step after it, and never writes the
\* output; the output is written in the last step, when the timeline, the
\* events, the completed trades and the statistics of the two logs are there;
\* nothing is transformed while a log is still to be loaded.
C14_NoPartialOutput ==
    /\ [](Fatal => ~output_written)
    /\ [](Fatal => <>(pc = "error"))
    /\ [][pc # "error"]_vars
    /\ [](output_written =>
            /\ pc = "done"
            /\ points = build_portfolio_points(portfolio_records)
            /\ events = build_trade_events(trade_records, points)
            /\ completed = pair_trade_events(events)
            /\ stats = compute_stats(points, events, completed))
    /\ [][output_written' # output_written => pc = "render_html" /\ pc' = "done"]_vars
    /\ [](Loading =>
            /\ points = <<>> /\ events = <<>> /\ completed = <<>>
            /\ stats = NoStats /\ ~output_written)

\* the timeline is built, the trade log has no usable row, the run has ended in
\* an error and there is no output
C14_Witness ==
    /\ Fatal
    /\ pc = "error"
    /\ points # <<>>
    /\ trade_records # <<>>
    /\ events = <<>>
    /\ ~output_written

\* ------------------------------------------------------------------ drawdown
InPercentRange(x) == ~FLess(x, F(0)) /\ ~FLess(F(PercentScale), x)
NoNegativeEquity == \A i \in Effective : ~FLess(EffectiveAt(i), F(0))

\* C15 as stated: whatever the effective equities are, zero and negative ones
\* included, a max drawdown that is present lies in 0..100.
C15_DrawdownBound ==
    (StatsDone /\ ~IsNone(stats.max_drawdown_pct)) => InPercentRange(stats.max_drawdown_pct)

\* C15 amended: a max drawdown that is present is >= 0; it is <= 100 when no
\* effective equity is negative.
C15_DrawdownBoundNonNegative ==
    (StatsDone /\ ~IsNone(stats.max_drawdown_pct))
        => /\ ~FLess(stats.max_drawdown_pct, F(0))
           /\ NoNegativeEquity => InPercentRange(stats.max_drawdown_pct)

\* the series starts at zero equity, rises and falls back part of the way
C15_Witness ==
    /\ StatsDone
    /\ Effective # {} /\ IsZero(EffectiveAt(FirstEffective))
    /\ NoNegativeEquity
    /\ FLess(F(0), stats.max_drawdown_pct)
    /\ FLess(stats.max_drawdown_pct, F(PercentScale))

\* ------------------------------------------------------------------ degrading statistics
\* the completed trades with a known pnl
KnownPnl == {j \in 1..Len(completed) : ~IsNone(completed[j].pnl)}

\* C16: statistics degrade independently and never raise.  compute_stats returns
\* on every run, and each metric is absent exactly when its own inputs are
\* missing: the equity metrics when no point has an effective equity, net return
\* also when the first one is zero, the benchmark metrics when no point has a
\* benchmark value, benchmark return also when the first one is zero, alpha when
\* either return is absent, win rate when no trade has a known pnl; the trade
\* count and the runtime are always there.
C16_IndependentMetrics ==
    /\ pc # "error"
    /\ StatsDone =>
        /\ IsNone(stats.start_equity) <=> Effective = {}
        /\ IsNone(stats.end_equity) <=> Effective = {}
        /\ IsNone(stats.max_drawdown_pct) <=> Effective = {}
        /\ IsNone(stats.net_return_pct)
            <=> (Effective = {} \/ IsZero(EffectiveAt(FirstEffective)))
        /\ IsNone(stats.hodl_end) <=> WithHodl = {}
        /\ IsNone(stats.hodl_return_pct)
            <=> (WithHodl = {} \/ IsZero(points[FirstHodl].hodl_equity))
        /\ IsNone(stats.alpha_vs_hodl)
            <=> (IsNone(stats.net_return_pct) \/ IsNone(stats.hodl_return_pct))
        /\ IsNone(stats.win_rate) <=> KnownPnl = {}
        /\ stats.total_trades = Len(completed)
        /\ ~IsNone(stats.runtime_hours)

\* zero start equity and no known pnl: net return, alpha and win rate are absent,
\* drawdown, benchmark return and runtime are computed
C16_Witness ==
    /\ StatsDone
    /\ Effective # {} /\ IsZero(stats.start_equity)
    /\ IsNone(stats.net_return_pct) /\ IsNone(stats.alpha_vs_hodl) /\ IsNone(stats.win_rate)
    /\ ~IsNone(stats.max_drawdown_pct)
    /\ ~IsNone(stats.hodl_return_pct)
    /\ ~IsNone(stats.runtime_hours)

\* ------------------------------------------------------------------ net return and alpha
\* C17: net return.  net_return_pct is present exactly when the first effective
\* equity exists and is not zero, and is then (last / first - 1) * 100, stated
\* here as net * first = (last - first) * 100; alpha is present exactly when
\* net return and benchmark return both are, and then net - alpha is the
\* benchmark return.
C17_NetReturn ==
    StatsDone =>
        /\ ~IsNone(stats.net_return_pct)
            <=> (Effective # {} /\ ~IsZero(EffectiveAt(FirstEffective)))
        /\ ~IsNone(stats.net_return_pct) =>
            FMul(stats.net_return_pct, EffectiveAt(FirstEffective))
                = FMul(FSub(EffectiveAt(LastEffective), EffectiveAt(FirstEffective)),
                       F(PercentScale))
        /\ ~IsNone(stats.alpha_vs_hodl)
            <=> (~IsNone(stats.net_return_pct) /\ ~IsNone(stats.hodl_return_pct))
        /\ ~IsNone(stats.alpha_vs_hodl) =>
            FSub(stats.net_return_pct, stats.alpha_vs_hodl) = stats.hodl_return_pct

\* the first effective equity is a balance, and net return, benchmark return and
\* alpha are three different numbers
C17_Witness ==
    /\ StatsDone
    /\ Len(points) = 3 /\ Effective # {}
    /\ FirstEffective = 1 /\ IsNone(points[1].equity)
    /\ ~IsNone(stats.alpha_vs_hodl)
    /\ ~IsZero(stats.net_return_pct) /\ ~IsZero(stats.alpha_vs_hodl)
    /\ stats.alpha_vs_hodl # stats.net_return_pct

\* ------------------------------------------------------------------ win rate
Wins == {j \in KnownPnl : completed[j].pnl.n > 0}

\* C18: win rate.  With no known pnl the win rate is absent; otherwise it is
\* 100 * wins / known, where a trade without pnl is in neither count and a pnl
\* of zero is not a win, and it lies in 0..100.
C18_WinRate ==
    StatsDone =>
        IF KnownPnl = {} THEN IsNone(stats.win_rate)
        ELSE /\ ~IsNone(stats.win_rate)
             /\ FMul(stats.win_rate, F(Cardinality(KnownPnl)))
                    = F(PercentScale * Cardinality(Wins))
             /\ InPercentRange(stats.win_rate)

\* a trade left open, a close at zero pnl and a winning close: one win of two
C18_Witness ==
    /\ StatsDone
    /\ Len(completed) = 3
    /\ \E j \in 1..Len(completed) : IsNone(completed[j].pnl)
    /\ \E j \in KnownPnl : IsZero(completed[j].pnl)
    /\ Cardinality(Wins) = 1
    /\ FMul(stats.win_rate, F(2)) = F(PercentScale)

\* ------------------------------------------------------------------ frames of the stages
\* C19: no stage mutates an earlier stage's output.  A step of
\* build_trade_events leaves the points as they are, a step of pair_trade_events
\* leaves the points and the events as they are, and compute_stats leaves the
\* points, the events and the completed trades as they are.
C19_NoMutation ==
    /\ [][pc = "build_trade_events" => points' = points]_vars
    /\ [][(pc \in {"pair_loop", "pair_drain"}) => <<points, events>>' = <<points, events>>]_vars
    /\ [][pc = "compute_stats"
            => <<points, events, completed>>' = <<points, events, completed>>]_vars

\* compute_stats has returned on a run with two different points, two events and
\* a completed trade, and the three sequences are what their stages returned
C19_Witness ==
    /\ pc = "render_html"
    /\ Len(points) = 2 /\ points[1] # points[2]
    /\ Len(events) = 2 /\ events[1] # events[2]
    /\ completed # <<>>
    /\ points = build_portfolio_points(portfolio_records)
    /\ events = build_trade_events(trade_records, points)
    /\ completed = pair_trade_events(events)

\* ------------------------------------------------------------------ durations
\* the ENTRY event and the CLOSE event a record was made from, 0 if none
EntryOf(r) ==
    IF \E i \in 1..Len(events) : IsEntry(i) /\ Tag(i) = r.entry_reason
    THEN CHOOSE i \in 1..Len(events) : IsEntry(i) /\ Tag(i) = r.entry_reason
    ELSE 0
CloseOf(r) ==
    IF \E c \in 1..Len(events) : IsClose(c) /\ Tag(c) = r.exit_reason
    THEN CHOOSE c \in 1..Len(events) : IsClose(c) /\ Tag(c) = r.exit_reason
    ELSE 0

\* C20: duration.  A record made from an ENTRY and a CLOSE has the CLOSE instant
\* minus the ENTRY instant as duration_seconds; a record of a still-open trade
\* (no CLOSE) and a record of an orphan CLOSE (no ENTRY) have none.
C20_Duration ==
    \A j \in 1..Len(completed) :
        LET r == completed[j]
        IN  /\ EntryOf(r) # 0 \/ CloseOf(r) # 0
            /\ completed[j].duration_seconds =
                IF EntryOf(r) # 0 /\ CloseOf(r) # 0
                THEN F((events[CloseOf(r)].dt.local - events[CloseOf(r)].dt.off)
                        - (events[EntryOf(r)].dt.local - events[EntryOf(r)].dt.off))
                ELSE None

\* a matched trade whose two timestamps carry different UTC offsets and a
\* record without a duration in the list returned
C20_Witness ==
    /\ Returned
    /\ \E j \in 1..Len(completed) :
        /\ EntryOf(completed[j]) # 0 /\ CloseOf(completed[j]) # 0
        /\ events[EntryOf(completed[j])].dt.off # events[CloseOf(completed[j])].dt.off
        /\ ~IsZero(completed[j].duration_seconds)
    /\ \E j \in 1..Len(completed) :
        /\ EntryOf(completed[j]) = 0 \/ CloseOf(completed[j]) = 0
        /\ IsNone(completed[j].duration_seconds)

\* ------------------------------------------------------------------ damaged numeric cells
\* C21: numeric fields never block a row.  Whatever the numeric cells hold, once
\* a builder is over on a log with a well-formed timestamp its output has one
\* element per row with a non-empty timestamp.
C21_NumericNeverBlocks ==
    /\ (PointsStageOver /\ ~AnyMalformed(portfolio_records) /\ Kept(portfolio_records) # <<>>)
        => Len(points) = Len(Kept(portfolio_records))
    /\ (EventsStageOver /\ ~AnyMalformed(trade_records) /\ Kept(trade_records) # <<>>)
        => Len(events) = Len(Kept(trade_records))

\* the same for logs without an integer beyond the float range
InRangeNeverBlocks ==
    (/\ ~PointCellsRaise(portfolio_records)
     /\ ~EventCellsRaise(trade_records)) => C21_NumericNeverBlocks

\* ------------------------------------------------------------------ the drawdown pass
\* the largest effective equity up to and including point i
PeakAt(i) ==
    CHOOSE v \in {EffectiveAt(j) : j \in {k \in Effective : k <= i}} :
        \A j \in {k \in Effective : k <= i} : ~FLess(v, EffectiveAt(j))
\* (running peak - value) / running peak at point i, zero at a zero peak
DrawdownAt(i) ==
    IF IsZero(PeakAt(i)) THEN F(0)
    ELSE FDiv(FSub(PeakAt(i), EffectiveAt(i)), PeakAt(i))
LargestDrawdown ==
    CHOOSE t \in {DrawdownAt(i) : i \in Effective} :
        \A i \in Effective : ~FLess(t, DrawdownAt(i))

\* C22: max drawdown algorithm.  max_drawdown_pct is absent exactly when no
\* point has an effective equity, and otherwise 100 times the largest, over the
\* points with an effective equity, of (running peak - value) / running peak,
\* the term being zero at a zero running peak.
C22_MaxDrawdown ==
    StatsDone =>
        stats.max_drawdown_pct =
            IF Effective = {} THEN None ELSE FMul(LargestDrawdown, F(PercentScale))

\* a rise above the first value, then a fall back to it: the drawdown is
\* measured from the later peak, a third of it
C22_Witness ==
    /\ StatsDone
    /\ Effective = {1, 2, 3}
    /\ FLess(EffectiveAt(1), EffectiveAt(2))
    /\ EffectiveAt(3) = EffectiveAt(1)
    /\ FMul(stats.max_drawdown_pct, F(3)) = F(PercentScale)

\* ------------------------------------------------------------------ keys
\* the raw row an event was built from
RowOf(i) == trade_records[CHOOSE j \in 1..Len(trade_records) : trade_records[j].reason = Tag(i)]
\* upper-casing of the letters the logs use, written out
SameIgnoringCase(a, b) ==
    \E pair \in {<<"entry", "ENTRY">>, <<"close", "CLOSE">>, <<"long", "LONG">>,
                 <<"short", "SHORT">>} : {a, b} \subseteq {pair[1], pair[2]}
\* the queues of the keys other than the key of event i are the same after the step
OtherQueuesKept(i) ==
    \A k \in 1..Len(open_positions) :
        open_positions[k].key # <<events[i].coin, events[i].side>>
            => /\ k <= Len(open_positions')
               /\ open_positions'[k] = open_positions[k]

\* C23: per-key isolation.  A step of the pairing loop leaves the queue of every
\* key other than the event's (coin, upper-cased side) as it is; the events carry
\* the upper-cased action and side of their rows; and every record made from an
\* ENTRY and a CLOSE has two events of the same coin and the same side, logged
\* in whatever case.
C23_KeyIsolation ==
    /\ [][(pc = "pair_loop") => OtherQueuesKept(ei)]_vars
    /\ [](\A i \in 1..Len(events) :
            /\ events[i].action = Upper(RowOf(i).action)
            /\ events[i].side = Upper(RowOf(i).side)
            /\ events[i].coin = RowOf(i).coin)
    /\ [](\A j \in 1..Len(completed) :
            (EntryOf(completed[j]) # 0 /\ CloseOf(completed[j]) # 0)
                => /\ RowOf(EntryOf(completed[j])).coin = RowOf(CloseOf(completed[j])).coin
                   /\ SameIgnoringCase(RowOf(EntryOf(completed[j])).side,
                                       RowOf(CloseOf(completed[j])).side)
                   /\ completed[j].coin = RowOf(CloseOf(completed[j])).coin
                   /\ EntryOf(completed[j]) < CloseOf(completed[j]))

\* an ENTRY logged as entry / long is closed by a CLOSE logged as CLOSE / LONG
\* while an ENTRY of the other direction of the same coin stays open
C23_Witness ==
    /\ Returned
    /\ \E j \in 1..Len(completed) :
        /\ EntryOf(completed[j]) # 0 /\ CloseOf(completed[j]) # 0
        /\ RowOf(EntryOf(completed[j])).action = "entry"
        /\ RowOf(EntryOf(completed[j])).side = "long"
        /\ RowOf(CloseOf(completed[j])).side = "LONG"
    /\ \E j \in 1..Len(completed) :
        /\ CloseOf(completed[j]) = 0
        /\ completed[j].side = "SHORT"
        /\ EntryOf(completed[j]) < Len(events)

\* ------------------------------------------------------------------ order of a matched pair
\* C24: on the sorted events of build_trade_events, every record made from an
\* ENTRY and a CLOSE has a duration >= 0, an entry instant not later than its
\* exit instant, and an ENTRY that comes before its CLOSE in the sorted events.
C24_NonNegativeDuration ==
    \A j \in 1..Len(completed) :
        (EntryOf(completed[j]) # 0 /\ CloseOf(completed[j]) # 0)
            => /\ ~FLess(completed[j].duration_seconds, F(0))
               /\ events[EntryOf(completed[j])].dt.local - events[EntryOf(completed[j])].dt.off
                    <= events[CloseOf(completed[j])].dt.local
                            - events[CloseOf(completed[j])].dt.off
               /\ EntryOf(completed[j]) < CloseOf(completed[j])

\* the log has the CLOSE row before the ENTRY row it closes, an instant earlier
C24_Witness ==
    /\ Returned
    /\ Len(trade_records) = 2
    /\ Upper(trade_records[1].action) = "CLOSE"
    /\ Upper(trade_records[2].action) = "ENTRY"
    /\ \E j \in 1..Len(completed) :
        /\ EntryOf(completed[j]) = 1 /\ CloseOf(completed[j]) = 2
        /\ FLess(F(0), completed[j].duration_seconds)

\* ---------------------------------------------------------------------------
\* The playback script of the page (render_html, the <script> block)
\* ---------------------------------------------------------------------------

\* most snapshots on a page
MaxFrames == 4

\* milliseconds between two display frames
FrameMs == 16

\* the variables of main()
pipeline == <<pc, portfolio_records, trade_records, points, btc_units, pi, events, ei,
              open_positions, completed, stats, output_written>>

\* script: const speeds, milliseconds per frame for each option of speedSelect
speeds ==
    (1 :> 650) @@ (2 :> 420) @@ (4 :> 220) @@ (8 :> 120) @@ (10 :> 80) @@ (50 :> 30)
    @@ (100 :> 15)

\* the longest delay of the table: a difference of timestamps is only ever compared
\* with a delay, so it is kept up to this value
LongestDelay == CHOOSE d \in {speeds[s] : s \in DOMAIN speeds} :
                    \A s \in DOMAIN speeds : speeds[s] <= d

\* timestamp - step.lastTime, dt milliseconds after it was t
Elapsed(t, dt) == IF t + dt > LongestDelay THEN LongestDelay ELSE t + dt

\* the handle requestAnimationFrame returns: one that no callback held by the browser
\* has and that differs from the one the script still keeps in rafId
NewHandle(held) ==
    CHOOSE h \in 1..(Cardinality(held) + 2) : h \notin held \cup {rafId}

\* requestAnimationFrame(step): the callbacks held afterwards
requestAnimationFrame(h, held) == held \cup {h}

\* (faulty variant) the pause branch leaves the requested callback in place
cancelNothing(h, held) == held

\* cancelAnimationFrame(rafId): the callbacks held afterwards
cancelAnimationFrame(h, held) == held \ {h}

\* Math.min(currentFrame + 1, maxFrame)
NextFrame == IF currentFrame + 1 < maxFrame THEN currentFrame + 1 ELSE maxFrame

\* the page of a run of main() over n snapshots and one trade, just opened
InitPlayback ==
    /\ \E n \in 1..MaxFrames :
            portfolio_records = [i \in 1..n |-> MainPortfolioRow(i, TsIso(i, 0))]
    /\ trade_records = StatsTrades
    /\ pc = "done"
    /\ points = build_portfolio_points(portfolio_records)
    /\ btc_units = StepUnits(None, points[1])
    /\ pi = Len(points) + 1
    /\ events = build_trade_events(trade_records, points)
    /\ ei = Len(events) + 1
    /\ open_positions = DrainLoop(PairLoop([open |-> <<>>, completed |-> <<>>], events)).open
    /\ completed = pair_trade_events(events)
    /\ stats = compute_stats(points, events, completed)
    /\ output_written = TRUE
    /\ maxFrame = max_frame(points)
    /\ ScriptStart

\* playButton's click listener (the keydown listener calls it on Space)
Click ==
    /\ userActive
    /\ IF playing
       THEN /\ playing' = FALSE
            /\ pending' = IF rafId # NullId THEN cancelAnimationFrame(rafId, pending)
                          ELSE pending
            /\ UNCHANGED <<currentFrame, rafId, lastTime>>
       ELSE /\ currentFrame' = IF currentFrame = maxFrame THEN 0 ELSE currentFrame
            /\ playing' = TRUE
            /\ lastTime' = NoTime
            /\ rafId' = NewHandle(pending)
            /\ pending' = requestAnimationFrame(NewHandle(pending), pending)
    /\ UNCHANGED <<speed, userActive, maxFrame, pipeline>>

\* frameSlider's input listener
SliderInput ==
    /\ userActive
    /\ \E value \in 0..maxFrame :
            /\ value # currentFrame
            /\ currentFrame' = value
    /\ UNCHANGED <<playing, rafId, pending, lastTime, speed, userActive, maxFrame, pipeline>>

\* the viewer picks another option of speedSelect
SelectSpeed ==
    /\ userActive
    /\ \E value \in DOMAIN speeds :
            /\ value # speed
            /\ speed' = value
    /\ UNCHANGED <<currentFrame, playing, rafId, pending, lastTime, userActive, maxFrame,
                   pipeline>>

\* the viewer lets go of the controls for good
Leave ==
    /\ userActive
    /\ userActive' = FALSE
    /\ UNCHANGED <<currentFrame, playing, rafId, pending, lastTime, speed, maxFrame,
                   pipeline>>

\* the browser runs a requested callback: function step(timestamp), one or two display
\* frames after the callback before it
Step ==
    /\ \E h \in pending : \E dt \in {FrameMs, 2 * FrameMs} :
        LET since == IF lastTime = NoTime THEN NoTime ELSE Elapsed(lastTime, dt)
            delay == speeds[speed]
            held  == pending \ {h}
        IN  IF ~playing
            THEN /\ pending' = held
                 /\ UNCHANGED <<currentFrame, playing, rafId, lastTime>>
            ELSE IF lastTime = NoTime \/ since >= delay
            THEN /\ currentFrame' = NextFrame
                 /\ lastTime' = 0
                 /\ IF NextFrame = maxFrame
                    THEN /\ playing' = FALSE
                         /\ pending' = held
                         /\ rafId' = rafId
                    ELSE /\ playing' = playing
                         /\ rafId' = NewHandle(held)
                         /\ pending' = requestAnimationFrame(NewHandle(held), held)
            ELSE /\ lastTime' = since
                 /\ rafId' = NewHandle(held)
                 /\ pending' = requestAnimationFrame(NewHandle(held), held)
                 /\ UNCHANGED <<currentFrame, playing>>
    /\ UNCHANGED <<speed, userActive, maxFrame, pipeline>>

NextPlayback == Click \/ SliderInput \/ SelectSpeed \/ Leave \/ Step

SpecPlayback == InitPlayback /\ [][NextPlayback]_vars

\* the browser runs every callback it was asked for
SpecPlaybackFair == SpecPlayback /\ WF_vars(Step)

\* C25: whatever the order of button clicks, slider inputs and animation-frame
\* callbacks, currentFrame stays within 0..maxFrame and at most one callback is held
\* by the browser, none while playback is stopped; playback that the viewer leaves
\* running reaches maxFrame and is then stopped with no callback held; and a click
\* while stopped at maxFrame starts again from frame 0.
C25_Playback ==
    /\ [](currentFrame \in 0..maxFrame)
    /\ [](Cardinality(pending) <= 1)
    /\ [](~playing => pending = {})
    /\ [][(playing /\ ~playing') => pending' = {}]_vars
    /\ [][(playing /\ ~playing' /\ currentFrame' # currentFrame) =>
            currentFrame' = maxFrame]_vars
    /\ [](playing /\ ~userActive =>
            <>(currentFrame = maxFrame /\ ~playing /\ pending = {}))
    /\ [][(~playing /\ playing' /\ currentFrame = maxFrame) => currentFrame' = 0]_vars
    /\ [][(~playing /\ playing' /\ currentFrame # maxFrame) =>
            currentFrame' = currentFrame]_vars

\* playback paused, moved with the slider, started again at another speed and left
\* alone has run to the last frame and stopped
C25_Witness ==
    /\ ~userActive
    /\ maxFrame >= 2
    /\ speed # 1
    /\ currentFrame = maxFrame
    /\ ~playing
    /\ pending = {}
    /\ rafId # NullId
    /\ lastTime = 0

====
